---- MODULE Spec2Model ----
(***************************************************************************)
(* A model of proxy.py: one handle_client worker serving one accepted      *)
(* connection.  Byte strings and text are sequences of one-character       *)
(* strings, so that parsing, splitting, lower-casing and re-serialising    *)
(* are computed as the code computes them.                                  *)
(***************************************************************************)
EXTENDS Integers, Sequences, FiniteSets, TLC

\* ------------------------------------------------------------------------
\* Characters
\* ------------------------------------------------------------------------
CR == "\r"
LF == "\n"
SP == " "
TAB == "\t"
\* A byte that is not valid UTF-8 on its own (0xFF).
BAD == "<FF>"
CRLF == <<CR, LF>>
CRLFCRLF == <<CR, LF, CR, LF>>
COLON == <<":">>
SLASH == <<"/">>

\* str.isspace() on the characters of the model's alphabet.
Whitespace == {SP, TAB, CR, LF}

Digits == <<"0", "1", "2", "3", "4", "5", "6", "7", "8", "9">>

UPPER == <<"A", "B", "C", "D", "E", "F", "G", "H", "I", "J", "K", "L", "M", "N", "O", "P", "Q", "R", "S", "T", "U", "V", "W", "X", "Y", "Z">>

LOWER == <<"a", "b", "c", "d", "e", "f", "g", "h", "i", "j", "k", "l", "m", "n", "o", "p", "q", "r", "s", "t", "u", "v", "w", "x", "y", "z">>

\* ------------------------------------------------------------------------
\* str / bytes methods used by proxy.py
\* ------------------------------------------------------------------------
LowerChar(c) ==
    IF \E i \in 1..26 : UPPER[i] = c THEN LOWER[CHOOSE i \in 1..26 : UPPER[i] = c] ELSE c

UpperChar(c) ==
    IF \E i \in 1..26 : LOWER[i] = c THEN UPPER[CHOOSE i \in 1..26 : LOWER[i] = c] ELSE c

\* str.lower()
Lower(s) == [i \in 1..Len(s) |-> LowerChar(s[i])]

\* str.upper()
Upper(s) == [i \in 1..Len(s) |-> UpperChar(s[i])]

\* d occurs in s at index i
OccursAt(s, d, i) ==
    /\ i >= 1
    /\ i + Len(d) - 1 <= Len(s)
    /\ \A j \in 1..Len(d) : s[i + j - 1] = d[j]

\* str.find(d) + 1: the index of the first occurrence of d in s, 0 when there is none
Find(s, d) ==
    LET idx == {i \in 1..Len(s) : OccursAt(s, d, i)}
    IN  IF idx = {} THEN 0 ELSE CHOOSE i \in idx : \A j \in idx : i <= j

\* the "in" operator on str and bytes
Contains(s, d) == Find(s, d) # 0

\* str.startswith(p)
StartsWith(s, p) == OccursAt(s, p, 1)

\* s[i:] of Python, with i counted from 0
From(s, i) == SubSeq(s, i + 1, Len(s))

\* str.split(d, n): n = -1 splits at every occurrence
RECURSIVE Split(_, _, _)
Split(s, d, n) ==
    LET i == Find(s, d)
    IN  IF n = 0 \/ i = 0
        THEN <<s>>
        ELSE <<SubSeq(s, 1, i - 1)>> \o Split(SubSeq(s, i + Len(d), Len(s)), d, IF n < 0 THEN n ELSE n - 1)

RECURSIVE LStrip(_)
LStrip(s) == IF s # <<>> /\ Head(s) \in Whitespace THEN LStrip(Tail(s)) ELSE s

RECURSIVE RStrip(_)
RStrip(s) ==
    IF s # <<>> /\ s[Len(s)] \in Whitespace THEN RStrip(SubSeq(s, 1, Len(s) - 1)) ELSE s

\* str.strip()
Strip(s) == RStrip(LStrip(s))

\* str.split() without arguments: the maximal runs of non-whitespace characters
RECURSIVE SplitWS(_)
SplitWS(s) ==
    LET t == LStrip(s)
        ws == {i \in 1..Len(t) : t[i] \in Whitespace}
        e == IF ws = {} THEN Len(t) + 1 ELSE CHOOSE i \in ws : \A j \in ws : i <= j
    IN  IF t = <<>> THEN <<>> ELSE <<SubSeq(t, 1, e - 1)>> \o SplitWS(SubSeq(t, e, Len(t)))

\* bytes.decode(errors="ignore"): bytes that do not decode are dropped
Decode(b) == SelectSeq(b, LAMBDA c : c # BAD)

\* str.encode() of text that Decode produced: the same characters
Encode(s) == s

DigitVal(c) == (CHOOSE i \in 1..10 : Digits[i] = c) - 1

IsDigit(c) == \E i \in 1..10 : Digits[i] = c

IntSign(t) == IF t # <<>> /\ Head(t) \in {"-", "+"} THEN Head(t) ELSE ""

IntBody(t) == IF IntSign(t) = "" THEN t ELSE Tail(t)

\* int(s) succeeds: optional surrounding whitespace, optional sign, digits
IntOk(s) ==
    LET d == IntBody(Strip(s))
    IN  d # <<>> /\ \A i \in 1..Len(d) : IsDigit(d[i])

RECURSIVE DigitsVal(_)
DigitsVal(d) ==
    IF d = <<>> THEN 0 ELSE 10 * DigitsVal(SubSeq(d, 1, Len(d) - 1)) + DigitVal(d[Len(d)])

\* the value of int(s) when it succeeds
IntVal(s) ==
    LET t == Strip(s)
    IN  IF IntSign(t) = "-" THEN 0 - DigitsVal(IntBody(t)) ELSE DigitsVal(IntBody(t))

\* p is a prefix of s
IsPrefix(p, s) == Len(p) <= Len(s) /\ SubSeq(s, 1, Len(p)) = p

\* ------------------------------------------------------------------------
\* The headers dict: insertion-ordered, a repeated key keeps its first place
\* ------------------------------------------------------------------------
DictHas(h, k) == \E i \in 1..Len(h) : h[i].k = k

DictGet(h, k, default) ==
    IF DictHas(h, k) THEN h[CHOOSE i \in 1..Len(h) : h[i].k = k].v ELSE default

DictSet(h, k, v) ==
    IF DictHas(h, k)
    THEN [i \in 1..Len(h) |-> IF h[i].k = k THEN [k |-> k, v |-> v] ELSE h[i]]
    ELSE Append(h, [k |-> k, v |-> v])

\* the loop of parse_headers over lines[1:]
RECURSIVE HeaderLoop(_, _)
HeaderLoop(h, lines) ==
    IF lines = <<>> THEN h
    ELSE LET line == Head(lines)
             kv == Split(line, COLON, 1)
         IN  IF Contains(line, COLON)
             THEN HeaderLoop(DictSet(h, Lower(kv[1]), Strip(kv[2])), Tail(lines))
             ELSE HeaderLoop(h, Tail(lines))

parse_headers(header_bytes) ==
    LET lines == Split(Decode(header_bytes), CRLF, -1)
    IN  [request_line |-> lines[1], headers |-> HeaderLoop(<<>>, Tail(lines))]

\* ------------------------------------------------------------------------
\* Inputs: what the client sends on the accepted connection, the blocklist
\* file, the value of CONFIG["SOCKET_TIMEOUT"] after load_config
\* ------------------------------------------------------------------------
Requests ==
    <<
    \* 1: CONNECT to an allowed host: "CONNECT a:1 H/1\r\n\r\n"
    <<"C", "O", "N", "N", "E", "C", "T", SP, "a", ":", "1", SP, "H", "/", "1", CR, LF, CR, LF>>,
    \* 2: CONNECT followed at once by tunnel bytes: "CONNECT a:1 H/1\r\n\r\nuvw"
    <<"C", "O", "N", "N", "E", "C", "T", SP, "a", ":", "1", SP, "H", "/", "1", CR, LF, CR, LF, "u", "v", "w">>,
    \* 3: CONNECT, lower-case method, upper-case blocked host: "connect B:1 H/1\r\n\r\n"
    <<"c", "o", "n", "n", "e", "c", "t", SP, "B", ":", "1", SP, "H", "/", "1", CR, LF, CR, LF>>,
    \* 4: CONNECT target without a colon: "CONNECT a H/1\r\n\r\n"
    <<"C", "O", "N", "N", "E", "C", "T", SP, "a", SP, "H", "/", "1", CR, LF, CR, LF>>,
    \* 5: CONNECT target with two colons: "CONNECT a:1:2 H/1\r\n\r\n"
    <<"C", "O", "N", "N", "E", "C", "T", SP, "a", ":", "1", ":", "2", SP, "H", "/", "1", CR, LF, CR, LF>>,
    \* 6: CONNECT target with a non-numeric port: "CONNECT a:x H/1\r\n\r\n"
    <<"C", "O", "N", "N", "E", "C", "T", SP, "a", ":", "x", SP, "H", "/", "1", CR, LF, CR, LF>>,
    \* 7: CONNECT to a blocked host with a non-numeric port: "CONNECT b:x H/1\r\n\r\n"
    <<"C", "O", "N", "N", "E", "C", "T", SP, "b", ":", "x", SP, "H", "/", "1", CR, LF, CR, LF>>,
    \* 8: CONNECT to a blocked host, Host header naming another: "CONNECT b:1 H/1\r\nHost: a\r\n\r\n"
    <<"C", "O", "N", "N", "E", "C", "T", SP, "b", ":", "1", SP, "H", "/", "1", CR, LF, "H", "o", "s", "t", ":", SP, "a", CR, LF, CR, LF>>,
    \* 9: CONNECT with two tokens: "CONNECT a:1\r\n\r\n"
    <<"C", "O", "N", "N", "E", "C", "T", SP, "a", ":", "1", CR, LF, CR, LF>>,
    \* 10: absolute URI with path and query: "GET http://a/p/q?x H/1\r\nHost: a\r\n\r\n"
    <<"G", "E", "T", SP, "h", "t", "t", "p", ":", "/", "/", "a", "/", "p", "/", "q", "?", "x", SP, "H", "/", "1", CR, LF, "H", "o", "s", "t", ":", SP, "a", CR, LF, CR, LF>>,
    \* 11: absolute URI without path: "get http://a H/1\r\nHost: a\r\nX: 1\r\n\r\n"
    <<"g", "e", "t", SP, "h", "t", "t", "p", ":", "/", "/", "a", SP, "H", "/", "1", CR, LF, "H", "o", "s", "t", ":", SP, "a", CR, LF, "X", ":", SP, "1", CR, LF, CR, LF>>,
    \* 12: absolute URI with an empty path: "GET http://a/ H/1\r\nHost: a\r\n\r\n"
    <<"G", "E", "T", SP, "h", "t", "t", "p", ":", "/", "/", "a", "/", SP, "H", "/", "1", CR, LF, "H", "o", "s", "t", ":", SP, "a", CR, LF, CR, LF>>,
    \* 13: scheme in upper case: "GET HTTP://a/p H/1\r\nHost: a\r\n\r\n"
    <<"G", "E", "T", SP, "H", "T", "T", "P", ":", "/", "/", "a", "/", "p", SP, "H", "/", "1", CR, LF, "H", "o", "s", "t", ":", SP, "a", CR, LF, CR, LF>>,
    \* 14: blocked host, header name and value in other case, padded: "GET /p H/1\r\nHOST:  B \r\n\r\n"
    <<"G", "E", "T", SP, "/", "p", SP, "H", "/", "1", CR, LF, "H", "O", "S", "T", ":", SP, SP, "B", SP, CR, LF, CR, LF>>,
    \* 15: blocked host with a port: "GET / H/1\r\nHost: b:8\r\n\r\n"
    <<"G", "E", "T", SP, "/", SP, "H", "/", "1", CR, LF, "H", "o", "s", "t", ":", SP, "b", ":", "8", CR, LF, CR, LF>>,
    \* 16: Host with a non-numeric port: "GET / H/1\r\nHost: a:x\r\n\r\n"
    <<"G", "E", "T", SP, "/", SP, "H", "/", "1", CR, LF, "H", "o", "s", "t", ":", SP, "a", ":", "x", CR, LF, CR, LF>>,
    \* 17: blocked Host with a non-numeric port: "GET / H/1\r\nHost: b:x\r\n\r\n"
    <<"G", "E", "T", SP, "/", SP, "H", "/", "1", CR, LF, "H", "o", "s", "t", ":", SP, "b", ":", "x", CR, LF, CR, LF>>,
    \* 18: no Host header: "GET / H/1\r\n\r\n"
    <<"G", "E", "T", SP, "/", SP, "H", "/", "1", CR, LF, CR, LF>>,
    \* 19: content-length 2, three bytes sent after the headers: "PoSt /u H/1\r\nHost: a\r\nContent-Length: 2\r\n\r\nxyz"
    <<"P", "o", "S", "t", SP, "/", "u", SP, "H", "/", "1", CR, LF, "H", "o", "s", "t", ":", SP, "a", CR, LF, "C", "o", "n", "t", "e", "n", "t", "-", "L", "e", "n", "g", "t", "h", ":", SP, "2", CR, LF, CR, LF, "x", "y", "z">>,
    \* 20: non-numeric content-length: "POST /u H/1\r\nHost: a\r\ncontent-length: z\r\n\r\n"
    <<"P", "O", "S", "T", SP, "/", "u", SP, "H", "/", "1", CR, LF, "H", "o", "s", "t", ":", SP, "a", CR, LF, "c", "o", "n", "t", "e", "n", "t", "-", "l", "e", "n", "g", "t", "h", ":", SP, "z", CR, LF, CR, LF>>,
    \* 21: negative content-length: "POST /u H/1\r\nHost: a\r\nContent-Length: -1\r\n\r\n"
    <<"P", "O", "S", "T", SP, "/", "u", SP, "H", "/", "1", CR, LF, "H", "o", "s", "t", ":", SP, "a", CR, LF, "C", "o", "n", "t", "e", "n", "t", "-", "L", "e", "n", "g", "t", "h", ":", SP, "-", "1", CR, LF, CR, LF>>,
    \* 22: content-length 0: "POST /u H/1\r\nHost: a\r\nContent-Length: 0\r\n\r\n"
    <<"P", "O", "S", "T", SP, "/", "u", SP, "H", "/", "1", CR, LF, "H", "o", "s", "t", ":", SP, "a", CR, LF, "C", "o", "n", "t", "e", "n", "t", "-", "L", "e", "n", "g", "t", "h", ":", SP, "0", CR, LF, CR, LF>>,
    \* 23: repeated header, a line without colon, a padded name: "GET / H/1\r\nHost: a\r\nX: 1\r\njunk\r\nX: 2\r\nY : 3\r\n\r\n"
    <<"G", "E", "T", SP, "/", SP, "H", "/", "1", CR, LF, "H", "o", "s", "t", ":", SP, "a", CR, LF, "X", ":", SP, "1", CR, LF, "j", "u", "n", "k", CR, LF, "X", ":", SP, "2", CR, LF, "Y", SP, ":", SP, "3", CR, LF, CR, LF>>,
    \* 24: blocked Host, body holding a line that reads as a Host header: "POST / H/1\r\nHost: b\r\nContent-Length: 9\r\n\r\n\r\nhost: a"
    <<"P", "O", "S", "T", SP, "/", SP, "H", "/", "1", CR, LF, "H", "o", "s", "t", ":", SP, "b", CR, LF, "C", "o", "n", "t", "e", "n", "t", "-", "L", "e", "n", "g", "t", "h", ":", SP, "9", CR, LF, CR, LF, CR, LF, "h", "o", "s", "t", ":", SP, "a">>,
    \* 25: one token: "GET"
    <<"G", "E", "T">>,
    \* 26: two tokens: "GET /\r\n\r\n"
    <<"G", "E", "T", SP, "/", CR, LF, CR, LF>>,
    \* 27: four tokens: "GET / H/1 X\r\nHost: a\r\n\r\n"
    <<"G", "E", "T", SP, "/", SP, "H", "/", "1", SP, "X", CR, LF, "H", "o", "s", "t", ":", SP, "a", CR, LF, CR, LF>>,
    \* 28: nothing sent: ""
    <<>>,
    \* 29: empty request line: "\r\n\r\n"
    <<CR, LF, CR, LF>>,
    \* 30: header block cut short by the peer: "GET / H/1\r\nHost: a"
    <<"G", "E", "T", SP, "/", SP, "H", "/", "1", CR, LF, "H", "o", "s", "t", ":", SP, "a">>,
    \* 31: absolute URI with a byte that does not decode: "GET http://a/\u00ffp H/1\r\nHost: a\r\n\r\n"
    <<"G", "E", "T", SP, "h", "t", "t", "p", ":", "/", "/", "a", "/", BAD, "p", SP, "H", "/", "1", CR, LF, "H", "o", "s", "t", ":", SP, "a", CR, LF, CR, LF>>,
    \* 32: a byte that does not decode: "GET / H/1\r\nHost: a\u00ff\r\n\r\n"
    <<"G", "E", "T", SP, "/", SP, "H", "/", "1", CR, LF, "H", "o", "s", "t", ":", SP, "a", BAD, CR, LF, CR, LF>>
    >>

ClientStreams == {Requests[i] : i \in 1..Len(Requests)}

\* config/blocked_domains.txt: absent, present but not readable as text, or
\* these lines (an entry in upper case, a blank line, a padded entry)
BlockedFiles ==
    { [state |-> "missing", lines |-> <<>>],
      [state |-> "unreadable", lines |-> <<>>],
      [state |-> "present", lines |-> << <<"B", LF>>, <<LF>>, <<SP, "c", SP, LF>> >>] }

\* load_config keeps a value that is not all digits as a string
TimeoutConfigs == {"int", "str"}

\* ------------------------------------------------------------------------
\* Constants of the program and bounds of the model
\* ------------------------------------------------------------------------
\* CONFIG["BUFFER_SIZE"]
BUFFER_SIZE == 4096

\* the port of a plaintext request whose Host header names none
DefaultPort == 80

\* the largest port socket.create_connection takes
MaxPort == 65535

\* the most bytes the upstream peer sends on one connection
MaxUp == 2

\* the most bytes a sendall that fails has put on the wire before failing
MaxPartial == 1

\* how many connections the accept loop takes
MaxWorkers == 2

UpBytes == {"x", "y"}

RESP_403 == <<"H", "T", "T", "P", "/", "1", ".", "1", SP, "4", "0", "3", SP, "F", "o", "r", "b", "i", "d", "d", "e", "n", CR, LF, CR, LF, "B", "l", "o", "c", "k", "e", "d", SP, "b", "y", SP, "p", "r", "o", "x", "y">>

RESP_200 == <<"H", "T", "T", "P", "/", "1", ".", "1", SP, "2", "0", "0", SP, "C", "o", "n", "n", "e", "c", "t", "i", "o", "n", SP, "E", "s", "t", "a", "b", "l", "i", "s", "h", "e", "d", CR, LF, CR, LF>>

CONNECT == <<"C", "O", "N", "N", "E", "C", "T">>

HTTP_SCHEME == <<"h", "t", "t", "p", ":", "/", "/">>

HOST == <<"h", "o", "s", "t">>

CONTENT_LENGTH == <<"c", "o", "n", "t", "e", "n", "t", "-", "l", "e", "n", "g", "t", "h">>

Min(a, b) == IF a <= b THEN a ELSE b

\* ------------------------------------------------------------------------
\* State
\* ------------------------------------------------------------------------
VARIABLES
    pc,             \* the worker's position in handle_client; where it stopped, once it has
    outcome,        \* "running", "returned", "escaped" (an exception left handle_client),
                    \* or "blocked": inside a socket call that never returns
    exc,            \* the exception the try statement caught: "none", "timeout", "error"
    timeoutCfg,     \* the kind of value CONFIG["SOCKET_TIMEOUT"] holds
    blockedFile,    \* the blocklist file
    stream,         \* every byte the client sends on the connection
    cpos,           \* how many of them the worker has read
    blocked,        \* the local variable of that name
    header_data,
    request_line,
    headers,
    method,
    target,
    version,
    host,           \* dest_host in the CONNECT branch, host in the forwarding branch
    port,           \* dest_port in the CONNECT branch, port in the forwarding branch
    forward,        \* the text the forwarding branch sends upstream
    length,
    body,
    data,           \* the chunk read by tunnel or by the response relay
    rlist,          \* tunnel: the sockets of r still to be served in this round
    client,         \* the client socket: "open" or "closed"
    server,         \* the upstream socket: "none", "open" or "closed"
    serverTimeout,  \* whether server.settimeout has been called
    cout,           \* every byte written to the client
    sout,           \* every byte written to the upstream socket
    sin,            \* every byte read from the upstream socket
    logv,           \* the events appended to the log file
    lastop,         \* the last socket call and how it ended
    ncalls,         \* how many times create_connection and client.recv(length) were called
    self,           \* the worker thread that is running: the variables above are its own
    threads,        \* for every other worker thread, the values it left when it was suspended
    accepted        \* how many connections the accept loop has handed to a thread

locals == <<blocked, header_data, request_line, headers, method, target, version, host, port, forward, length, body, data, rlist>>

inputs == <<timeoutCfg, blockedFile, stream>>

sockets == <<client, server, serverTimeout, cout, sout, sin, cpos>>

control == <<pc, outcome, exc, logv, lastop, ncalls>>

\* the accept loop and the threads it started; handle_client names none of it
threading == <<self, threads, accepted>>

vars == <<locals, inputs, sockets, control, threading>>

\* the calls that ncalls counts; every other call of a socket leaves it alone
CallKinds == {"create_connection", "client.recv(length)"}

\* the worker is running and at position p
At(p) == outcome = "running" /\ pc = p

Called(op, res) ==
    /\ lastop' = <<op, res>>
    /\ ncalls' = IF op \in CallKinds THEN [ncalls EXCEPT ![op] = @ + 1] ELSE ncalls

\* ------------------------------------------------------------------------
\* load_blocked_domains
\* ------------------------------------------------------------------------
BlockedSet(lines) ==
    {Lower(Strip(lines[i])) : i \in {j \in 1..Len(lines) : Strip(lines[j]) # <<>>}}

load_blocked_domains(file) ==
    IF file.state = "present" THEN [raised |-> FALSE, set |-> BlockedSet(file.lines)]
    ELSE IF file.state = "missing" THEN [raised |-> FALSE, set |-> {}]
    ELSE [raised |-> TRUE, set |-> {}]

\* ------------------------------------------------------------------------
\* The except and finally clauses of handle_client
\* ------------------------------------------------------------------------
\* except socket.timeout: pass / except Exception as e: log(ERROR)
ExceptLog(kind, lg) == IF kind = "error" THEN Append(lg, "ERROR") ELSE lg

\* the worker leaves the try statement: by return (kind "none") or by an
\* exception of the given kind; lg is the log written so far
Leave(kind, lg) ==
    /\ pc' = pc
    /\ outcome' = "returned"
    /\ exc' = kind
    /\ logv' = ExceptLog(kind, lg)
    /\ client' = "closed"

\* an exception raised outside the try statement
Escape ==
    /\ pc' = pc
    /\ outcome' = "escaped"
    /\ UNCHANGED <<exc, logv, client>>

\* ------------------------------------------------------------------------
\* Socket calls: what each can return
\* ------------------------------------------------------------------------
\* a variant of ClientRecvData: the read is not limited to n bytes
ClientRecvDataUnlimited(n) ==
    {SubSeq(stream, cpos + 1, cpos + k) : k \in 1..(Len(stream) - cpos)}
        \cup (IF cpos = Len(stream) \/ n = 0 THEN {<<>>} ELSE {})

\* client.recv(n): some bytes of what the client has sent and the worker has
\* not read; b"" once the client has sent everything and closed (or n = 0)
ClientRecvData(n) ==
    {SubSeq(stream, cpos + 1, cpos + k) : k \in 1..Min(n, Len(stream) - cpos)}
        \cup (IF cpos = Len(stream) \/ n = 0 THEN {<<>>} ELSE {})

\* server.recv(n): the upstream peer sends what it likes, or closes
ServerRecvData(n) ==
    {<<>>} \cup (IF Len(sin) + 1 <= MaxUp THEN {<<b>> : b \in UpBytes} ELSE {})
           \cup (IF Len(sin) + 2 <= MaxUp /\ n >= 2
                 THEN {<<b1, b2>> : b1 \in UpBytes, b2 \in UpBytes} ELSE {})

\* what a sendall(d) that fails has sent
PartialWrites(d) == {SubSeq(d, 1, k) : k \in 0..Min(MaxPartial, Len(d) - 1)} \cup {<<>>}

\* how a sendall can fail: a socket with a timeout can time out
SendFailures(hasTimeout) == IF hasTimeout THEN {"timeout", "error"} ELSE {"error"}

\* ------------------------------------------------------------------------
\* handle_client, lines 91-134: from the header block to the first socket call
\* ------------------------------------------------------------------------
\* a variant of TooFewParts: the test is len(parts) < 2
TooFewPartsTwo(parts) == Len(parts) < 2

\* if len(parts) < 3: return
TooFewParts(parts) == Len(parts) < 3

\* a variant of ConnectRoute: a target without a port gets port 443
ConnectRouteDefaultPort(r, blk) ==
    LET hp == Split(r.target, COLON, -1)
    IN  IF Len(hp) = 1
        THEN [r EXCEPT !.host = Lower(hp[1]),
                       !.port = 443,
                       !.next = IF Lower(hp[1]) \in blk THEN "c_403" ELSE "c_connect"]
        ELSE IF Len(hp) # 2 THEN [r EXCEPT !.next = "raise"]
        ELSE IF ~IntOk(hp[2]) THEN [r EXCEPT !.next = "raise", !.host = Lower(hp[1])]
        ELSE [r EXCEPT !.host = Lower(hp[1]),
                       !.port = IntVal(hp[2]),
                       !.next = IF Lower(hp[1]) \in blk THEN "c_403" ELSE "c_connect"]

\* dest_host, dest_port = target.split(":"); lower(); int(); the blocklist test
ConnectRoute(r, blk) ==
    LET hp == Split(r.target, COLON, -1)
    IN  IF Len(hp) # 2 THEN [r EXCEPT !.next = "raise"]
        ELSE IF ~IntOk(hp[2]) THEN [r EXCEPT !.next = "raise", !.host = Lower(hp[1])]
        ELSE [r EXCEPT !.host = Lower(hp[1]),
                       !.port = IntVal(hp[2]),
                       !.next = IF Lower(hp[1]) \in blk THEN "c_403" ELSE "c_connect"]

\* host = headers.get("host", ""); the optional port; lower(); the blocklist test
ForwardRoute(r, blk) ==
    LET h0 == DictGet(r.headers, HOST, <<>>)
        hp == Split(h0, COLON, -1)
    IN  IF ~Contains(h0, COLON)
        THEN [r EXCEPT !.host = Lower(h0),
                       !.port = DefaultPort,
                       !.next = IF Lower(h0) \in blk THEN "h_403" ELSE "h_connect"]
        ELSE IF Len(hp) # 2 THEN [r EXCEPT !.next = "raise", !.host = h0, !.port = DefaultPort]
        ELSE IF ~IntOk(hp[2]) THEN [r EXCEPT !.next = "raise", !.host = hp[1], !.port = DefaultPort]
        ELSE [r EXCEPT !.host = Lower(hp[1]),
                       !.port = IntVal(hp[2]),
                       !.next = IF Lower(hp[1]) \in blk THEN "h_403" ELSE "h_connect"]

\* what lines 91-134 assign and where they lead: "return", "raise" (an
\* exception that is not a timeout), or the socket call that comes next
Route(hd, blk) ==
    LET ph == parse_headers(hd)
        parts == SplitWS(ph.request_line)
        base == [next |-> "return", request_line |-> <<>>, headers |-> <<>>, method |-> <<>>,
                 target |-> <<>>, version |-> <<>>, host |-> <<>>, port |-> 0]
        parsed == [base EXCEPT !.request_line = ph.request_line, !.headers = ph.headers]
        named == [parsed EXCEPT !.method = Upper(parts[1]), !.target = parts[2], !.version = parts[3]]
    IN  IF hd = <<>> THEN base
        ELSE IF TooFewParts(parts) THEN parsed
        ELSE IF Len(parts) # 3 THEN [parsed EXCEPT !.next = "raise"]
        ELSE IF named.method = CONNECT THEN ConnectRoute(named, blk)
        ELSE ForwardRoute(named, blk)

\* a variant of RewriteLine: the target is split at two slashes, not three
RewriteLineSplitTwo(m, t, v, line) ==
    IF StartsWith(t, HTTP_SCHEME)
    THEN LET path == IF Contains(From(t, 7), SLASH) THEN SLASH \o Split(t, SLASH, 2)[3] ELSE SLASH
         IN  m \o <<SP>> \o path \o <<SP>> \o v
    ELSE line

\* lines 140-142: absolute URI to origin form
RewriteLine(m, t, v, line) ==
    IF StartsWith(t, HTTP_SCHEME)
    THEN LET path == IF Contains(From(t, 7), SLASH) THEN SLASH \o Split(t, SLASH, 3)[4] ELSE SLASH
         IN  m \o <<SP>> \o path \o <<SP>> \o v
    ELSE line

RECURSIVE HeaderText(_)
HeaderText(h) ==
    IF h = <<>> THEN <<>> ELSE Head(h).k \o <<":", SP>> \o Head(h).v \o CRLF \o HeaderText(Tail(h))

\* lines 144-147
BuildForward(line, h) == line \o CRLF \o HeaderText(h) \o CRLF

\* ------------------------------------------------------------------------
\* Initial state: the connection has been accepted, handle_client is entered
\* ------------------------------------------------------------------------
\* the values handle_client starts from, for a connection whose client sends s
Fresh(s) ==
    [ pc |-> "settimeout",
      outcome |-> "running",
      exc |-> "none",
      stream |-> s,
      cpos |-> 0,
      blocked |-> {},
      header_data |-> <<>>,
      request_line |-> <<>>,
      headers |-> <<>>,
      method |-> <<>>,
      target |-> <<>>,
      version |-> <<>>,
      host |-> <<>>,
      port |-> 0,
      forward |-> <<>>,
      length |-> 0,
      body |-> <<>>,
      data |-> <<>>,
      rlist |-> <<>>,
      client |-> "open",
      server |-> "none",
      serverTimeout |-> FALSE,
      cout |-> <<>>,
      sout |-> <<>>,
      sin |-> <<>>,
      logv |-> <<>>,
      lastop |-> <<"accept", "ok">>,
      ncalls |-> [k \in CallKinds |-> 0] ]

\* what belongs to the running worker alone: the arguments and local variables
\* of its call of handle_client, the state of its two sockets, the lines it
\* appended to the log (each carries its addr), and the bookkeeping about its calls
Context ==
    [ pc |-> pc,
      outcome |-> outcome,
      exc |-> exc,
      stream |-> stream,
      cpos |-> cpos,
      blocked |-> blocked,
      header_data |-> header_data,
      request_line |-> request_line,
      headers |-> headers,
      method |-> method,
      target |-> target,
      version |-> version,
      host |-> host,
      port |-> port,
      forward |-> forward,
      length |-> length,
      body |-> body,
      data |-> data,
      rlist |-> rlist,
      client |-> client,
      server |-> server,
      serverTimeout |-> serverTimeout,
      cout |-> cout,
      sout |-> sout,
      sin |-> sin,
      logv |-> logv,
      lastop |-> lastop,
      ncalls |-> ncalls ]

\* the running worker starts from c
Install(c) ==
    /\ pc = c.pc
    /\ outcome = c.outcome
    /\ exc = c.exc
    /\ stream = c.stream
    /\ cpos = c.cpos
    /\ blocked = c.blocked
    /\ header_data = c.header_data
    /\ request_line = c.request_line
    /\ headers = c.headers
    /\ method = c.method
    /\ target = c.target
    /\ version = c.version
    /\ host = c.host
    /\ port = c.port
    /\ forward = c.forward
    /\ length = c.length
    /\ body = c.body
    /\ data = c.data
    /\ rlist = c.rlist
    /\ client = c.client
    /\ server = c.server
    /\ serverTimeout = c.serverTimeout
    /\ cout = c.cout
    /\ sout = c.sout
    /\ sin = c.sin
    /\ logv = c.logv
    /\ lastop = c.lastop
    /\ ncalls = c.ncalls

\* the running worker becomes the one that left c
Load(c) ==
    /\ pc' = c.pc
    /\ outcome' = c.outcome
    /\ exc' = c.exc
    /\ stream' = c.stream
    /\ cpos' = c.cpos
    /\ blocked' = c.blocked
    /\ header_data' = c.header_data
    /\ request_line' = c.request_line
    /\ headers' = c.headers
    /\ method' = c.method
    /\ target' = c.target
    /\ version' = c.version
    /\ host' = c.host
    /\ port' = c.port
    /\ forward' = c.forward
    /\ length' = c.length
    /\ body' = c.body
    /\ data' = c.data
    /\ rlist' = c.rlist
    /\ client' = c.client
    /\ server' = c.server
    /\ serverTimeout' = c.serverTimeout
    /\ cout' = c.cout
    /\ sout' = c.sout
    /\ sin' = c.sin
    /\ logv' = c.logv
    /\ lastop' = c.lastop
    /\ ncalls' = c.ncalls

\* the slot of a thread that is running, or not started yet
Parked == Fresh(<<>>)

\* the first connection has been accepted and handle_client is entered for it
Start(streams) ==
    /\ timeoutCfg \in TimeoutConfigs
    /\ blockedFile \in BlockedFiles
    /\ \E s \in streams : Install(Fresh(s))
    /\ self = 1
    /\ accepted = 1
    /\ threads = [i \in 1..MaxWorkers |-> Parked]

Init == Start(ClientStreams)

\* ------------------------------------------------------------------------
\* handle_client, step by step
\* ------------------------------------------------------------------------
\* line 86: client.settimeout(CONFIG["SOCKET_TIMEOUT"]) raises TypeError on a string
SetTimeout ==
    /\ At("settimeout")
    /\ IF timeoutCfg = "int"
       THEN pc' = "load" /\ UNCHANGED <<outcome, exc, logv, client>>
       ELSE Escape
    /\ UNCHANGED <<locals, inputs, threading, server, serverTimeout, cout, sout, sin, cpos, lastop, ncalls>>

\* line 87: blocked = load_blocked_domains()
LoadBlocked ==
    /\ At("load")
    /\ LET r == load_blocked_domains(blockedFile)
       IN  IF r.raised
           THEN Escape /\ UNCHANGED blocked
           ELSE /\ blocked' = r.set
                /\ pc' = "recv_until"
                /\ UNCHANGED <<outcome, exc, logv, client>>
    /\ UNCHANGED <<header_data, request_line, headers, method, target, version, host, port, forward, length, body, data, rlist>>
    /\ UNCHANGED <<inputs, threading, server, serverTimeout, cout, sout, sin, cpos, lastop, ncalls>>

\* the loop test of recv_until
RecvUntilDone(d, chunk) == Contains(d, CRLFCRLF) \/ chunk = <<>>

\* lines 47-54 and 90: one sock.recv of recv_until
RecvUntil ==
    /\ At("recv_until")
    /\ \/ \E chunk \in ClientRecvData(BUFFER_SIZE) :
            /\ header_data' = header_data \o chunk
            /\ cpos' = cpos + Len(chunk)
            /\ pc' = IF RecvUntilDone(header_data', chunk) THEN "route" ELSE "recv_until"
            /\ Called("client.recv", IF chunk = <<>> THEN "eof" ELSE "data")
            /\ UNCHANGED <<outcome, exc, logv, client>>
       \/ \E kind \in {"timeout", "error"} :
            /\ Leave(kind, logv)
            /\ Called("client.recv", kind)
            /\ UNCHANGED <<header_data, cpos>>
    /\ UNCHANGED <<blocked, request_line, headers, method, target, version, host, port, forward, length, body, data, rlist>>
    /\ UNCHANGED <<inputs, threading, server, serverTimeout, cout, sout, sin>>

\* lines 91-108 and 122-131
Dispatch ==
    /\ At("route")
    /\ LET r == Route(header_data, blocked)
       IN  /\ request_line' = r.request_line
           /\ headers' = r.headers
           /\ method' = r.method
           /\ target' = r.target
           /\ version' = r.version
           /\ host' = r.host
           /\ port' = r.port
           /\ IF r.next = "return" THEN Leave("none", logv)
              ELSE IF r.next = "raise" THEN Leave("error", logv)
              ELSE pc' = r.next /\ UNCHANGED <<outcome, exc, logv, client>>
    /\ UNCHANGED <<blocked, header_data, forward, length, body, data, rlist>>
    /\ UNCHANGED <<inputs, threading, server, serverTimeout, cout, sout, sin, cpos, lastop, ncalls>>

\* lines 109-111 and 132-134: the 403 response, the BLOCKED event, return
SendBlocked ==
    /\ \/ /\ cout' = cout \o RESP_403
          /\ Called("client.sendall", "ok")
          /\ Leave("none", Append(logv, "BLOCKED"))
       \/ \E kind \in SendFailures(TRUE), w \in PartialWrites(RESP_403) :
          /\ cout' = cout \o w
          /\ Called("client.sendall", kind)
          /\ Leave(kind, logv)
    /\ UNCHANGED <<locals, inputs, threading, server, serverTimeout, sout, sin, cpos>>

ConnectBlocked == At("c_403") /\ SendBlocked

ForwardBlocked == At("h_403") /\ SendBlocked

\* how socket.create_connection can end.  A connection attempt that times out
\* raises TimeoutError, which is socket.timeout from Python 3.10 on.
\* A port outside 0..65535 raises OverflowError.
ConnectResults(p) == IF p >= 0 /\ p <= MaxPort THEN {"ok", "error", "timeout"} ELSE {"error"}

\* line 113: server = socket.create_connection((dest_host, dest_port))
ConnectOpen ==
    /\ At("c_connect")
    /\ \E res \in ConnectResults(port) :
          /\ Called("create_connection", res)
          /\ IF res = "ok"
             THEN /\ server' = "open"
                  /\ pc' = "c_200"
                  /\ UNCHANGED <<outcome, exc, logv, client>>
             ELSE Leave(res, logv) /\ UNCHANGED server
    /\ UNCHANGED <<locals, inputs, threading, serverTimeout, cout, sout, sin, cpos>>

\* ConnectEstablished without the 200 response written before the tunnel
ConnectEstablishedNoReply ==
    /\ At("c_200")
    /\ Called("tunnel", "enter")
    /\ logv' = Append(logv, "CONNECT")
    /\ pc' = "t_select"
    /\ UNCHANGED <<outcome, exc, client>>
    /\ UNCHANGED <<locals, inputs, threading, server, serverTimeout, cout, sout, sin, cpos>>

\* ConnectEstablished with the CONNECT event logged before the 200 is written
ConnectEstablishedLogsFirst ==
    /\ At("c_200")
    /\ \/ /\ cout' = cout \o RESP_200
          /\ Called("client.sendall", "ok")
          /\ logv' = Append(logv, "CONNECT")
          /\ pc' = "t_select"
          /\ UNCHANGED <<outcome, exc, client>>
       \/ \E kind \in SendFailures(TRUE), w \in PartialWrites(RESP_200) :
          /\ cout' = cout \o w
          /\ Called("client.sendall", kind)
          /\ Leave(kind, Append(logv, "CONNECT"))
    /\ UNCHANGED <<locals, inputs, threading, server, serverTimeout, sout, sin, cpos>>

\* lines 114-116: the 200 response, the CONNECT event
ConnectEstablished ==
    /\ At("c_200")
    /\ \/ /\ cout' = cout \o RESP_200
          /\ Called("client.sendall", "ok")
          /\ logv' = Append(logv, "CONNECT")
          /\ pc' = "t_select"
          /\ UNCHANGED <<outcome, exc, client>>
       \/ \E kind \in SendFailures(TRUE), w \in PartialWrites(RESP_200) :
          /\ cout' = cout \o w
          /\ Called("client.sendall", kind)
          /\ Leave(kind, logv)
    /\ UNCHANGED <<locals, inputs, threading, server, serverTimeout, sout, sin, cpos>>

\* the lists select can return for [client, server]; the empty one is the timeout
ReadyLists == {<<>>, <<"client">>, <<"server">>, <<"client", "server">>}

\* TunnelSelect with the idle timeout raised as socket.timeout instead of
\* ending the loop
TunnelSelectRaises ==
    /\ At("t_select")
    /\ \E r \in ReadyLists :
          /\ rlist' = r
          /\ IF r = <<>>
             THEN /\ Called("select", "timeout")
                  /\ Leave("timeout", logv)
                  /\ UNCHANGED server
             ELSE /\ Called("select", "ready")
                  /\ pc' = "t_recv"
                  /\ UNCHANGED <<server, outcome, exc, logv, client>>
    /\ UNCHANGED <<blocked, header_data, request_line, headers, method, target, version, host, port, forward, length, body, data>>
    /\ UNCHANGED <<inputs, threading, serverTimeout, cout, sout, sin, cpos>>

\* lines 73-75, then 118-119 when the wait timed out
TunnelSelect ==
    /\ At("t_select")
    /\ \E r \in ReadyLists :
          /\ rlist' = r
          /\ IF r = <<>>
             THEN /\ Called("select", "timeout")
                  /\ server' = "closed"
                  /\ Leave("none", logv)
             ELSE /\ Called("select", "ready")
                  /\ pc' = "t_recv"
                  /\ UNCHANGED <<server, outcome, exc, logv, client>>
    /\ UNCHANGED <<blocked, header_data, request_line, headers, method, target, version, host, port, forward, length, body, data>>
    /\ UNCHANGED <<inputs, threading, serverTimeout, cout, sout, sin, cpos>>

\* TunnelRecv with a half-duplex continuation: an empty read ends only the
\* turn of the socket that returned it
TunnelRecvHalfDuplex ==
    /\ At("t_recv")
    /\ LET s == Head(rlist)
           op == IF s = "client" THEN "client.recv" ELSE "server.recv"
       IN  \/ \E chunk \in (IF s = "client" THEN ClientRecvData(BUFFER_SIZE) ELSE ServerRecvData(BUFFER_SIZE)) :
                /\ data' = chunk
                /\ cpos' = IF s = "client" THEN cpos + Len(chunk) ELSE cpos
                /\ sin' = IF s = "server" THEN sin \o chunk ELSE sin
                /\ IF chunk = <<>>
                   THEN /\ Called(op, "eof")
                        /\ rlist' = Tail(rlist)
                        /\ pc' = IF rlist' = <<>> THEN "t_select" ELSE "t_recv"
                   ELSE /\ Called(op, "data")
                        /\ pc' = "t_send"
                        /\ UNCHANGED rlist
                /\ UNCHANGED <<server, outcome, exc, logv, client>>
           \/ /\ Called(op, "error")
              /\ Leave("error", logv)
              /\ UNCHANGED <<data, cpos, sin, server, rlist>>
    /\ UNCHANGED <<blocked, header_data, request_line, headers, method, target, version, host, port, forward, length, body>>
    /\ UNCHANGED <<inputs, threading, serverTimeout, cout, sout>>

\* lines 77-79, then 118-119 when the read returned nothing
TunnelRecv ==
    /\ At("t_recv")
    /\ LET s == Head(rlist)
           op == IF s = "client" THEN "client.recv" ELSE "server.recv"
       IN  \/ \E chunk \in (IF s = "client" THEN ClientRecvData(BUFFER_SIZE) ELSE ServerRecvData(BUFFER_SIZE)) :
                /\ data' = chunk
                /\ cpos' = IF s = "client" THEN cpos + Len(chunk) ELSE cpos
                /\ sin' = IF s = "server" THEN sin \o chunk ELSE sin
                /\ IF chunk = <<>>
                   THEN /\ Called(op, "eof")
                        /\ server' = "closed"
                        /\ Leave("none", logv)
                   ELSE /\ Called(op, "data")
                        /\ pc' = "t_send"
                        /\ UNCHANGED <<server, outcome, exc, logv, client>>
           \/ /\ Called(op, "error")
              /\ Leave("error", logv)
              /\ UNCHANGED <<data, cpos, sin, server>>
    /\ UNCHANGED <<blocked, header_data, request_line, headers, method, target, version, host, port, forward, length, body, rlist>>
    /\ UNCHANGED <<inputs, threading, serverTimeout, cout, sout>>

\* line 80: (server if s is client else client).sendall(data). The upstream
\* socket of a tunnel never had settimeout called (lines 113-117): its
\* sendall waits without bound for the peer to take the bytes, and when the
\* peer never does the call never returns.
TunnelSend ==
    /\ At("t_send")
    /\ LET s == Head(rlist)
           op == IF s = "client" THEN "server.sendall" ELSE "client.sendall"
       IN  \/ /\ sout' = IF s = "client" THEN sout \o data ELSE sout
              /\ cout' = IF s = "server" THEN cout \o data ELSE cout
              /\ Called(op, "ok")
              /\ rlist' = Tail(rlist)
              /\ pc' = IF rlist' = <<>> THEN "t_select" ELSE "t_recv"
              /\ UNCHANGED <<outcome, exc, logv, client>>
           \/ \E kind \in SendFailures(IF s = "client" THEN serverTimeout ELSE TRUE), w \in PartialWrites(data) :
              /\ sout' = IF s = "client" THEN sout \o w ELSE sout
              /\ cout' = IF s = "server" THEN cout \o w ELSE cout
              /\ Called(op, kind)
              /\ Leave(kind, logv)
              /\ UNCHANGED rlist
           \/ \E w \in PartialWrites(data) :
              /\ s = "client"
              /\ ~serverTimeout
              /\ sout' = sout \o w
              /\ Called(op, "blocked")
              /\ pc' = pc
              /\ outcome' = "blocked"
              /\ UNCHANGED <<cout, exc, logv, client, rlist>>
    /\ UNCHANGED <<blocked, header_data, request_line, headers, method, target, version, host, port, forward, length, body, data>>
    /\ UNCHANGED <<inputs, threading, server, serverTimeout, sin, cpos>>

\* lines 136-147: connect, settimeout, rewrite the request line, build forward
ForwardOpen ==
    /\ At("h_connect")
    /\ \E res \in ConnectResults(port) :
          /\ Called("create_connection", res)
          /\ IF res = "ok"
             THEN /\ server' = "open"
                  /\ serverTimeout' = TRUE
                  /\ request_line' = RewriteLine(method, target, version, request_line)
                  /\ forward' = BuildForward(request_line', headers)
                  /\ pc' = "h_send"
                  /\ UNCHANGED <<outcome, exc, logv, client>>
             ELSE /\ Leave(res, logv)
                  /\ UNCHANGED <<server, serverTimeout, request_line, forward>>
    /\ UNCHANGED <<blocked, header_data, headers, method, target, version, host, port, length, body, data, rlist>>
    /\ UNCHANGED <<inputs, threading, cout, sout, sin, cpos>>

\* lines 149-156: send the request, the ALLOWED event, int(content-length)
ForwardSend ==
    /\ At("h_send")
    /\ \/ /\ sout' = sout \o Encode(forward)
          /\ Called("server.sendall", "ok")
          /\ IF ~DictHas(headers, CONTENT_LENGTH)
             THEN /\ pc' = "h_relay_recv"
                  /\ logv' = Append(logv, "ALLOWED")
                  /\ UNCHANGED <<length, outcome, exc, client>>
             ELSE IF IntOk(DictGet(headers, CONTENT_LENGTH, <<>>))
             THEN /\ length' = IntVal(DictGet(headers, CONTENT_LENGTH, <<>>))
                  /\ pc' = "h_body_recv"
                  /\ logv' = Append(logv, "ALLOWED")
                  /\ UNCHANGED <<outcome, exc, client>>
             ELSE /\ Leave("error", Append(logv, "ALLOWED"))
                  /\ UNCHANGED length
       \/ \E kind \in SendFailures(serverTimeout), w \in PartialWrites(Encode(forward)) :
          /\ sout' = sout \o w
          /\ Called("server.sendall", kind)
          /\ Leave(kind, logv)
          /\ UNCHANGED length
    /\ UNCHANGED <<blocked, header_data, request_line, headers, method, target, version, host, port, forward, body, data, rlist>>
    /\ UNCHANGED <<inputs, threading, server, serverTimeout, cout, sin, cpos>>

\* line 157: body = client.recv(length); a negative length raises ValueError
ForwardBodyRecv ==
    /\ At("h_body_recv")
    /\ \/ /\ length >= 0
          /\ \E chunk \in ClientRecvData(length) :
                /\ body' = chunk
                /\ cpos' = cpos + Len(chunk)
                /\ Called("client.recv(length)", IF chunk = <<>> THEN "eof" ELSE "data")
                /\ pc' = "h_body_send"
                /\ UNCHANGED <<outcome, exc, logv, client>>
       \/ \E kind \in (IF length >= 0 THEN {"timeout", "error"} ELSE {"error"}) :
          /\ Called("client.recv(length)", kind)
          /\ Leave(kind, logv)
          /\ UNCHANGED <<body, cpos>>
    /\ UNCHANGED <<blocked, header_data, request_line, headers, method, target, version, host, port, forward, length, data, rlist>>
    /\ UNCHANGED <<inputs, threading, server, serverTimeout, cout, sout, sin>>

\* line 158: server.sendall(body)
ForwardBodySend ==
    /\ At("h_body_send")
    /\ \/ /\ sout' = sout \o body
          /\ Called("server.sendall", "ok")
          /\ pc' = "h_relay_recv"
          /\ UNCHANGED <<outcome, exc, logv, client>>
       \/ \E kind \in SendFailures(serverTimeout), w \in PartialWrites(body) :
          /\ sout' = sout \o w
          /\ Called("server.sendall", kind)
          /\ Leave(kind, logv)
    /\ UNCHANGED <<locals, inputs, threading, server, serverTimeout, cout, sin, cpos>>

\* lines 160-169: what ends the loop with server.close(): "break", or "raise"
RelayRecvEnd(res) == IF res \in {"eof", "timeout"} THEN "break" ELSE "raise"

RelaySendEnd(res) == IF res = "timeout" THEN "break" ELSE "raise"

\* lines 162-164 and 166-169: one server.recv of the response relay
RelayRecv ==
    /\ At("h_relay_recv")
    /\ \/ \E chunk \in ServerRecvData(BUFFER_SIZE) \ {<<>>} :
             /\ data' = chunk
             /\ sin' = sin \o chunk
             /\ Called("server.recv", "data")
             /\ pc' = "h_relay_send"
             /\ UNCHANGED <<server, outcome, exc, logv, client>>
       \/ \E res \in {"eof", "timeout", "error"} :
             /\ Called("server.recv", res)
             /\ IF RelayRecvEnd(res) = "break"
                THEN server' = "closed" /\ Leave("none", logv)
                ELSE UNCHANGED server /\ Leave(res, logv)
             /\ UNCHANGED <<data, sin>>
    /\ UNCHANGED <<blocked, header_data, request_line, headers, method, target, version, host, port, forward, length, body, rlist>>
    /\ UNCHANGED <<inputs, threading, serverTimeout, cout, sout, cpos>>

\* line 165, and 166-169 when the write times out
RelaySend ==
    /\ At("h_relay_send")
    /\ \/ /\ cout' = cout \o data
          /\ Called("client.sendall", "ok")
          /\ pc' = "h_relay_recv"
          /\ UNCHANGED <<server, outcome, exc, logv, client>>
       \/ \E res \in SendFailures(TRUE), w \in PartialWrites(data) :
          /\ cout' = cout \o w
          /\ Called("client.sendall", res)
          /\ IF RelaySendEnd(res) = "break"
             THEN server' = "closed" /\ Leave("none", logv)
             ELSE UNCHANGED server /\ Leave(res, logv)
    /\ UNCHANGED <<locals, inputs, threading, serverTimeout, sout, sin, cpos>>

Next ==
    \/ SetTimeout
    \/ LoadBlocked
    \/ RecvUntil
    \/ Dispatch
    \/ ConnectBlocked
    \/ ForwardBlocked
    \/ ConnectOpen
    \/ ConnectEstablished
    \/ TunnelSelect
    \/ TunnelRecv
    \/ TunnelSend
    \/ ForwardOpen
    \/ ForwardSend
    \/ ForwardBodyRecv
    \/ ForwardBodySend
    \/ RelayRecv
    \/ RelaySend

Spec == Init /\ [][Next]_vars

\* ------------------------------------------------------------------------
\* start_proxy, lines 193-200: one thread per accepted connection
\* ------------------------------------------------------------------------
\* what the client of the first connection sends: a CONNECT and a GET, each
\* blocked or not according to the blocklist file, or a request with a body
FirstStreams == {Requests[8], Requests[14], Requests[19]}

\* the clients of the later connections send nothing: their workers end at
\* the header read, by an empty read, a timeout or an error, or before it
LaterStreams == {Requests[28]}

\* lines 195-200: accept returns a connection and a thread is started for it
Accept ==
    /\ accepted < MaxWorkers
    /\ accepted' = accepted + 1
    /\ \E s \in LaterStreams : threads' = [threads EXCEPT ![accepted + 1] = Fresh(s)]
    /\ UNCHANGED <<locals, inputs, sockets, control, self>>

\* Switch with the blocklist kept in one variable that all threads use
SwitchSharedBlocked(j) ==
    /\ j \in 1..accepted
    /\ j # self
    /\ threads[j].outcome = "running"
    /\ Load([threads[j] EXCEPT !.blocked = blocked])
    /\ threads' = [threads EXCEPT ![self] = Context, ![j] = Parked]
    /\ self' = j
    /\ UNCHANGED <<timeoutCfg, blockedFile, accepted>>

\* the threads of lines 196-200 run interleaved: the running thread is
\* suspended where it is and thread j, which has not ended, goes on from
\* where it was
Switch(j) ==
    /\ j \in 1..accepted
    /\ j # self
    /\ threads[j].outcome = "running"
    /\ Load(threads[j])
    /\ threads' = [threads EXCEPT ![self] = Context, ![j] = Parked]
    /\ self' = j
    /\ UNCHANGED <<timeoutCfg, blockedFile, accepted>>

Schedule == \E j \in 1..MaxWorkers : Switch(j)

InitConc == Start(FirstStreams)

NextConc == Next \/ Accept \/ Schedule

SpecConc == InitConc /\ [][NextConc]_vars

\* ------------------------------------------------------------------------
\* What the client sent, read off the bytes of the stream
\* ------------------------------------------------------------------------
\* the index of the first byte after the first CRLFCRLF; 0 when there is none
AfterTerminator == IF Find(stream, CRLFCRLF) = 0 THEN 0 ELSE Find(stream, CRLFCRLF) + 4

\* the lines the client sent before the terminator, as text: request line,
\* then headers
SentLines ==
    Split(Decode(SubSeq(stream, 1, IF AfterTerminator = 0 THEN Len(stream) ELSE AfterTerminator - 5)), CRLF, -1)

SentTokens == SplitWS(SentLines[1])

\* the header lines of the request: the lines after the first that hold a colon
SentHeaderLines == SelectSeq(Tail(SentLines), LAMBDA l : Contains(l, COLON))

NameOf(l) == SubSeq(l, 1, Find(l, COLON) - 1)

ValueOf(l) == SubSeq(l, Find(l, COLON) + 1, Len(l))

\* the bytes the client sent after its header block
SentAfterHeaders ==
    IF AfterTerminator = 0 THEN <<>> ELSE SubSeq(stream, AfterTerminator, Len(stream))

BeforeColon(t) == IF Contains(t, COLON) THEN NameOf(t) ELSE t

\* the hosts the request names as its destination: the host of the CONNECT
\* target, or the host of each Host header of the header block
SentDestHosts ==
    IF Len(SentTokens) < 3 THEN {}
    ELSE IF Upper(SentTokens[1]) = CONNECT THEN {BeforeColon(SentTokens[2])}
    ELSE {BeforeColon(Strip(ValueOf(SentHeaderLines[i]))) :
              i \in {j \in 1..Len(SentHeaderLines) : Lower(NameOf(SentHeaderLines[j])) = HOST}}

\* the entries of the blocklist file
FileEntries ==
    IF blockedFile.state # "present" THEN {}
    ELSE {Strip(blockedFile.lines[i]) : i \in 1..Len(blockedFile.lines)} \ {<<>>}

DestinationBlocked ==
    /\ SentDestHosts # {}
    /\ \A h \in SentDestHosts : \E e \in FileEntries : Lower(e) = Lower(h)

Logged(ev) == \E i \in 1..Len(logv) : logv[i] = ev

\* ------------------------------------------------------------------------
\* Claims
\* ------------------------------------------------------------------------
\* C1: when the destination host of the connection (CONNECT target's host,
\* or the Host header's host) equals a blocklist entry up to case, no upstream
\* socket is ever opened and the client is written nothing but the 403
\* response, once.
C1_BlockedNeverForwarded ==
    DestinationBlocked =>
        /\ server = "none"
        /\ ncalls["create_connection"] = 0
        /\ IsPrefix(cout, RESP_403)
        /\ (Logged("BLOCKED") => cout = RESP_403)

\* C2: a worker that has left handle_client's try statement, by return or by
\* any exception, has closed the client socket and the upstream socket if it
\* opened one.
C2_BothSocketsClosed ==
    outcome = "returned" => client = "closed" /\ server # "open"

\* C3: every invocation of handle_client closes the client socket before it
\* ends and lets no failure escape, the steps before the request is read
\* (settimeout, load_blocked_domains) included.
C3_ClientClosedNothingEscapes ==
    outcome # "running" => client = "closed" /\ outcome # "escaped"

\* the tunnel has been entered: the 200 response was written and CONNECT logged
TunnelEntered == pc \in {"t_select", "t_recv", "t_send"}

\* C4: in an established tunnel the bytes written upstream are a prefix of
\* what the client sent after its CONNECT header block, and the bytes written
\* to the client after the 200 response are a prefix of what upstream sent.
C4_TunnelVerbatim ==
    TunnelEntered =>
        /\ IsPrefix(sout, SentAfterHeaders)
        /\ IsPrefix(RESP_200, cout)
        /\ IsPrefix(SubSeq(cout, Len(RESP_200) + 1, Len(cout)), sin)

RECURSIVE SentHeaderText(_)
SentHeaderText(ls) ==
    IF ls = <<>> THEN <<>>
    ELSE Lower(NameOf(Head(ls))) \o <<":", SP>> \o Strip(ValueOf(Head(ls))) \o CRLF
             \o SentHeaderText(Tail(ls))

\* the request has been re-serialised and sent upstream
RequestForwarded == pc \in {"h_send", "h_body_recv", "h_body_send", "h_relay_recv", "h_relay_send"}

\* C5: the header lines sent upstream are the header lines the client sent
\* between the request line and the terminator, in the client's order, each
\* as "name: value" with the name lower-cased and the value trimmed, then one
\* blank line: none dropped, none reordered, none added.
C5_HeadersVerbatim ==
    RequestForwarded => forward = request_line \o CRLF \o SentHeaderText(SentHeaderLines) \o CRLF

\* the index of the n-th "/" of t; 0 when t has fewer
NthSlash(t, n) ==
    LET idx == {i \in 1..Len(t) : t[i] = "/"}
    IN  IF Cardinality(idx) < n THEN 0
        ELSE CHOOSE i \in idx : Cardinality({j \in idx : j <= i}) = n

\* "/" followed by everything after the third "/" of t; "/" when t has none
PathAfterThirdSlash(t) ==
    IF NthSlash(t, 3) = 0 THEN SLASH ELSE SLASH \o SubSeq(t, NthSlash(t, 3) + 1, Len(t))

\* the request line the claim expects upstream, from the tokens the client sent
ExpectedRequestLine ==
    IF StartsWith(SentTokens[2], HTTP_SCHEME)
    THEN Upper(SentTokens[1]) \o <<SP>> \o PathAfterThirdSlash(SentTokens[2]) \o <<SP>> \o SentTokens[3]
    ELSE SentLines[1]

\* the request line and headers have been written upstream in full
RequestSent == pc \in {"h_body_recv", "h_body_send", "h_relay_recv", "h_relay_send"}

\* C6: the request line sent upstream for a target beginning with http:// is
\* METHOD path VERSION, path being "/" followed by everything after the third
\* "/" of the target, or "/" when there is none; it is computed from the
\* request line alone; any other request line is forwarded as the client
\* sent it.
C6_OriginForm ==
    /\ RequestForwarded =>
           /\ request_line = ExpectedRequestLine
           /\ IsPrefix(ExpectedRequestLine \o CRLF, forward)
    /\ RequestSent => IsPrefix(ExpectedRequestLine \o CRLF, sout)

C6_Witness ==
    /\ RequestSent
    /\ target = HTTP_SCHEME \o <<"a", "/", "p", "/", "q", "?", "x">>
    /\ IsPrefix(<<"G", "E", "T", SP, "/", "p", "/", "q", "?", "x", SP, "H", "/", "1", CR, LF>>, sout)

\* the header lines of the request as forwarded: the lines of forward after
\* the first that hold a colon
ForwardedHeaderLines == SelectSeq(Tail(Split(forward, CRLF, -1)), LAMBDA l : Contains(l, COLON))

\* the values N of the content-length headers the forwarded request carries
ForwardedLengths ==
    {IntVal(ValueOf(ForwardedHeaderLines[i])) :
        i \in {j \in 1..Len(ForwardedHeaderLines) :
                  /\ NameOf(ForwardedHeaderLines[j]) = CONTENT_LENGTH
                  /\ IntOk(ValueOf(ForwardedHeaderLines[j]))}}

RelayBegun == pc \in {"h_relay_recv", "h_relay_send"}

\* C7: for a forwarded request carrying content-length: N the worker reads
\* the client once, for at most N bytes, and writes the bytes of that read to
\* the upstream socket before the first read of the response relay; nothing
\* is read from upstream or written to the client before the body is written.
C7_BodyBeforeRelay ==
    ForwardedLengths # {} =>
        /\ RelayBegun =>
               /\ ncalls["client.recv(length)"] = 1
               /\ \A n \in ForwardedLengths : Len(body) <= n
               /\ body = SubSeq(stream, cpos - Len(body) + 1, cpos)
               /\ sout = Encode(forward) \o body
        /\ pc \in {"h_send", "h_body_recv", "h_body_send"} =>
               /\ cout = <<>>
               /\ sin = <<>>
               /\ ncalls["client.recv(length)"] <= 1

C7_Witness ==
    /\ ForwardedLengths = {2}
    /\ pc = "h_relay_send"
    /\ body = <<"x", "y">>
    /\ sout = Encode(forward) \o <<"x", "y">>
    /\ cout = <<>>

\* C8: in the response relay the bytes written to the client are a prefix of
\* the bytes received from upstream, and the relay stops, with the upstream
\* socket closed, exactly when a read from upstream returns nothing or times
\* out.
C8_RelayStopsOnEofOrTimeout ==
    RelayBegun =>
        /\ IsPrefix(cout, sin)
        /\ outcome # "running" <=> lastop \in {<<"server.recv", "eof">>, <<"server.recv", "timeout">>}
        /\ outcome # "running" => server = "closed"

\* the header read has returned
HeadersRead == pc \notin {"settimeout", "load", "recv_until"}

\* C9: a connection whose request line has fewer than three tokens, or whose
\* header read returned nothing, ends at that point: client socket closed,
\* nothing written to the client, no upstream socket, no log event, normal
\* termination.
C9_ShortRequestLine ==
    HeadersRead /\ Len(SentTokens) < 3 =>
        /\ pc = "route"
        /\ cout = <<>>
        /\ server = "none"
        /\ ncalls["create_connection"] = 0
        /\ logv = <<>>
        /\ exc = "none"
        /\ outcome \in {"running", "returned"}
        /\ outcome = "returned" => client = "closed"

C9_Witness ==
    /\ outcome = "returned"
    /\ pc = "route"
    /\ Len(SentTokens) = 2
    /\ header_data # <<>>
    /\ client = "closed"

ColonCount(t) == Cardinality({i \in 1..Len(t) : t[i] = ":"})

\* t is not host:port with a port made of digits
MalformedTarget(t) ==
    \/ ColonCount(t) # 1
    \/ ValueOf(t) = <<>>
    \/ \E i \in 1..Len(ValueOf(t)) : ~IsDigit(ValueOf(t)[i])

MalformedConnect ==
    /\ Len(SentTokens) = 3
    /\ Upper(SentTokens[1]) = CONNECT
    /\ MalformedTarget(SentTokens[2])

\* C10 as stated: a CONNECT whose target is not a well-formed host:port
\* aborts silently: nothing written to the client, no upstream socket, no log
\* entry of any kind.
C10_MalformedConnectSilent ==
    HeadersRead /\ MalformedConnect /\ outcome # "running" =>
        /\ cout = <<>>
        /\ server = "none"
        /\ logv = <<>>

\* C10 as amended: such a CONNECT ends the worker at the split of the target:
\* nothing written to the client, no upstream socket and no attempt to open
\* one, the client socket closed, and exactly one log entry, an ERROR.
C10_MalformedConnectLogsError ==
    HeadersRead /\ MalformedConnect =>
        /\ pc = "route"
        /\ cout = <<>>
        /\ server = "none"
        /\ ncalls["create_connection"] = 0
        /\ outcome = "running" => logv = <<>>
        /\ outcome # "running" =>
               /\ outcome = "returned"
               /\ exc = "error"
               /\ logv = <<"ERROR">>
               /\ client = "closed"

C10_Witness ==
    /\ MalformedConnect
    /\ outcome = "returned"
    /\ pc = "route"
    /\ target = <<"a", ":", "x">>
    /\ logv = <<"ERROR">>

\* the worker has asked for the upstream connection and did not get it
ConnectFailed == lastop[1] = "create_connection" /\ lastop[2] # "ok"

\* C11: when the upstream connection cannot be established (refused,
\* unresolvable, connect timed out), in either mode, the worker made exactly
\* one attempt, wrote nothing to the client, logged exactly one entry, an
\* ERROR, and closed the client socket.
C11_ConnectFailureLogsError ==
    ConnectFailed =>
        /\ ncalls["create_connection"] = 1
        /\ server = "none"
        /\ cout = <<>>
        /\ logv = <<"ERROR">>
        /\ outcome = "returned"
        /\ client = "closed"

\* some byte has been read from or written to one of the two sockets
Transferred == cpos > 0 \/ cout # <<>> \/ sout # <<>> \/ sin # <<>>

ErrorCount == Cardinality({i \in 1..Len(logv) : logv[i] = "ERROR"})

\* C12: a worker that left the try statement has logged an ERROR exactly
\* when it left through an exception other than a timeout that fired after
\* some byte had been transferred; the ERROR is logged once.
C12_ErrorLoggedUnlessTimeoutAfterTransfer ==
    outcome = "returned" =>
        /\ ErrorCount <= 1
        /\ ErrorCount = 1 <=> (exc # "none" /\ ~(exc = "timeout" /\ Transferred))

\* C13: when the readiness wait of an established tunnel times out (neither
\* socket readable for SOCKET_TIMEOUT seconds) the relay ends there: the
\* worker returns normally with both sockets closed, and its log holds the
\* CONNECT event and no ERROR.
C13_IdleTunnelEndsCleanly ==
    lastop = <<"select", "timeout">> =>
        /\ pc = "t_select"
        /\ outcome = "returned"
        /\ exc = "none"
        /\ server = "closed"
        /\ client = "closed"
        /\ logv = <<"CONNECT">>

C13_Witness ==
    /\ lastop = <<"select", "timeout">>
    /\ outcome = "returned"
    /\ sin # <<>>
    /\ cout = RESP_200 \o sin
    /\ server = "closed"

\* the positions before the request has been parsed and the blocklist consulted
BeforeRouting == pc \in {"settimeout", "load", "recv_until", "route"}

ConnectMode == pc \in {"c_403", "c_connect", "c_200", "t_select", "t_recv", "t_send"}

\* a byte has been read by the relay of the tunnel, from either socket
RelayRead == sin # <<>> \/ cpos > Len(header_data)

\* C14: before the request line and headers are parsed and the blocklist is
\* consulted no upstream socket is opened (nor asked for) and no byte is
\* written to or read from upstream; an upstream socket exists only for a
\* destination the loaded blocklist does not hold; and in CONNECT mode no
\* relay read or readiness wait happens before the 200 response is written
\* in full to the client, and none at all for a blocked destination.
C14_RouteBeforeUpstream ==
    /\ BeforeRouting =>
           /\ server = "none"
           /\ ncalls["create_connection"] = 0
           /\ sout = <<>>
           /\ sin = <<>>
           /\ cout = <<>>
    /\ ncalls["create_connection"] > 0 =>
           /\ HeadersRead
           /\ request_line # <<>>
           /\ host \notin blocked
    /\ ConnectMode =>
           /\ sout # <<>> \/ RelayRead \/ lastop[1] = "select" =>
                  /\ TunnelEntered
                  /\ IsPrefix(RESP_200, cout)
           /\ pc = "c_403" => ncalls["create_connection"] = 0 /\ IsPrefix(cout, RESP_403)

C14_Witness ==
    /\ TunnelEntered
    /\ sin # <<>>
    /\ cpos > Len(header_data)
    /\ IsPrefix(RESP_200, cout)
    /\ host \notin blocked
    /\ blocked # {}

ForwardMode == pc \in {"h_403", "h_connect", "h_send", "h_body_recv", "h_body_send", "h_relay_recv", "h_relay_send"}

\* C15: a request whose request line has at least three whitespace-separated
\* tokens parses: the worker takes method, target and version from it and
\* hands the request to exactly one handler, the CONNECT one when the first
\* token upper-cased is CONNECT and the plaintext one otherwise.
C15_ThreeTokensRouted ==
    HeadersRead /\ Len(SentTokens) >= 3 =>
        /\ pc = "route" /\ outcome # "running" =>
               /\ method = Upper(SentTokens[1])
               /\ target = SentTokens[2]
        /\ ConnectMode => Upper(SentTokens[1]) = CONNECT
        /\ ForwardMode => Upper(SentTokens[1]) # CONNECT

\* C16: every socket call of a worker returns, with a result or with a
\* timeout: no worker is ever inside a socket call that waits without bound.
C16_NoCallBlocksForever == outcome # "blocked"

\* what the relay of the tunnel has read from the client
TunnelClientBytes == SubSeq(stream, Len(header_data) + 1, cpos)

\* C18: in an established tunnel, a read that returns nothing, on either
\* socket, is the relay's last socket call: the worker is at that read and
\* has returned with both sockets closed, and every byte the relay read
\* before it, from either socket, has been written in full to the opposite
\* socket.
C18_ZeroReadEndsRelay ==
    TunnelEntered /\ lastop[2] = "eof" =>
        /\ pc = "t_recv"
        /\ lastop[1] = (IF Head(rlist) = "client" THEN "client.recv" ELSE "server.recv")
        /\ outcome = "returned"
        /\ exc = "none"
        /\ server = "closed"
        /\ client = "closed"
        /\ sout = TunnelClientBytes
        /\ cout = RESP_200 \o sin

C18_Witness ==
    /\ TunnelEntered
    /\ lastop = <<"server.recv", "eof">>
    /\ rlist = <<"server">>
    /\ outcome = "returned"
    /\ TunnelClientBytes # <<>>
    /\ sout = TunnelClientBytes
    /\ sin # <<>>
    /\ cout = RESP_200 \o sin

\* the bytes after the terminator that the header read took from the socket
OverRead == IF AfterTerminator = 0 THEN <<>> ELSE SubSeq(header_data, AfterTerminator, Len(header_data))

\* what the worker wrote upstream after the request head (all of it, in a tunnel)
PayloadSent == IF ForwardMode THEN SubSeq(sout, Len(Encode(forward)) + 1, Len(sout)) ELSE sout

\* the header names the client sent before the terminator
SentNames == {Lower(NameOf(SentHeaderLines[i])) : i \in 1..Len(SentHeaderLines)}

\* C19: the header read discards no payload: none of the bytes after the
\* terminator becomes a header of the parsed request, and a worker that ran
\* its relay to a normal end has written upstream, as payload, every such
\* byte the header read had taken from the socket.
C19_HeaderReadKeepsPayload ==
    /\ HeadersRead => \A i \in 1..Len(headers) : headers[i].k \in SentNames
    /\ (outcome = "returned" /\ exc = "none" /\ (TunnelEntered \/ RelayBegun)) =>
           IsPrefix(OverRead, PayloadSent)

RouteEvents == {"BLOCKED", "CONNECT", "ALLOWED"}

RouteEventCount == Cardinality({i \in 1..Len(logv) : logv[i] \in RouteEvents})

\* C20: a connection asks for at most one upstream socket and logs at most
\* one of BLOCKED, CONNECT, ALLOWED. CONNECT is in the log only when the
\* upstream socket was opened and the 200 response written in full to the
\* client; ALLOWED only when the rewritten request line and the headers were
\* written in full to the upstream socket; and a log holding BLOCKED holds
\* nothing else, the worker having returned after the 403 without an upstream
\* socket.
C20_OneUpstreamOneEvent ==
    /\ ncalls["create_connection"] <= 1
    /\ server # "none" <=> (ncalls["create_connection"] = 1 /\ ~ConnectFailed)
    /\ RouteEventCount <= 1
    /\ Logged("CONNECT") =>
           /\ server # "none"
           /\ TunnelEntered
           /\ IsPrefix(RESP_200, cout)
    /\ Logged("ALLOWED") =>
           /\ server # "none"
           /\ forward = BuildForward(request_line, headers)
           /\ IsPrefix(Encode(forward), sout)
    /\ Logged("BLOCKED") =>
           /\ logv = <<"BLOCKED">>
           /\ outcome = "returned"
           /\ cout = RESP_403
           /\ ncalls["create_connection"] = 0

C20_Witness ==
    /\ logv = <<"ALLOWED", "ERROR">>
    /\ ncalls["create_connection"] = 1
    /\ IsPrefix(Encode(forward), sout)
    /\ outcome = "returned"

\* worker i as it stands: running, or as it was left
CtxOf(i) == IF i = self THEN Context ELSE threads[i]

====
